---- MODULE Spec2Model ----
(***************************************************************************)
(* Privacy-enforcement and result-caching pipeline of continuous_discovery *)
(* _ai: discovery/privacy.py (redact, validate, audit), discovery/         *)
(* analyzer.py (InterviewAnalyzer.analyze) and api.py (run_demo with its   *)
(* per-variant cache file).                                                *)
(*                                                                         *)
(* Text is a sequence of symbols.  A symbol stands for one substring of    *)
(* the real text, classified by the configured patterns it matches:        *)
(*   "w" plain word           "e" email            "E" email that matches  *)
(*   "p" phone number         "i" employee id          only with IGNORECASE*)
(*   "n" name  "b" iban  "t" api token             "I" employee id that    *)
(*   "[EMAIL]" ... the replacement tokens              matches only with   *)
(*   "{" "}" the structural text of a JSON dump        IGNORECASE          *)
(*   ":" "a" characters of a cache-key component                           *)
(*   two letters of t b e p i n, as "en" or "bp": a substring that two of  *)
(*   the patterns match (an e-mail address made of a name, an IBAN whose   *)
(*   digits read as a phone number)                                        *)
(***************************************************************************)
EXTENDS Integers, Sequences, FiniteSets, TLC

VARIABLES rules, texts, cache, req, lastWriter, edits, faults, probe

vars == <<rules, texts, cache, req, lastWriter, edits, faults, probe>>

-----------------------------------------------------------------------------
(* Bounds *)

\* longest transcript given to the pure privacy functions
MaxLen == 2
\* most evidence quotes in a record given to the validator
MaxQuotes == 2
\* longest cache-key component (variant, guidelines_key, text) in SpecKey
MaxKeyLen == 2
\* times a variant's transcript file is edited on disk
MaxEdits == 1
\* times the cache directory is damaged from outside the program
MaxFaults == 1

-----------------------------------------------------------------------------
(* Sequences *)

SeqsUpTo(S, n) == UNION {[1..k -> S] : k \in 0..n}

RECURSIVE MapSeq(_, _)
MapSeq(Op(_), s) == IF s = <<>> THEN <<>> ELSE <<Op(Head(s))>> \o MapSeq(Op, Tail(s))

RECURSIVE CountSeq(_, _)
CountSeq(Test(_), s) ==
    IF s = <<>> THEN 0
    ELSE (IF Test(Head(s)) THEN 1 ELSE 0) + CountSeq(Test, Tail(s))

-----------------------------------------------------------------------------
(* Rule set: guidelines['privacy_enforcement'] *)

Categories == {"api_token", "iban", "email", "phone", "employee_id", "names"}

\* replacement_tokens[cat]
ReplacementToken(cat) ==
    CASE cat = "api_token"   -> "[API_TOKEN]"
      [] cat = "iban"        -> "[IBAN]"
      [] cat = "email"       -> "[EMAIL]"
      [] cat = "phone"       -> "[PHONE]"
      [] cat = "employee_id" -> "[EMPLOYEE_ID]"
      [] cat = "names"       -> "[NAME]"

\* patterns[cat] matched against one symbol, with or without re.IGNORECASE
PatternMatches(cat, sym, ignorecase) ==
    CASE cat = "api_token"   -> sym \in {"t", "tb", "te", "tp", "ti", "tn"}
      [] cat = "iban"        -> sym \in {"b", "tb", "be", "bp", "bi", "bn"}
      [] cat = "email"       -> sym \in {"e", "te", "be", "ep", "ei", "en"}
                                \/ (ignorecase /\ sym = "E")
      [] cat = "phone"       -> sym \in {"p", "tp", "bp", "ep", "pi", "pn"}
      [] cat = "employee_id" -> sym \in {"i", "ti", "bi", "ei", "pi", "in"}
                                \/ (ignorecase /\ sym = "I")
      [] cat = "names"       -> sym \in {"n", "tn", "bn", "en", "pn", "in"}

\* a pattern of the configuration that does not compile: re raises re.error
\* whenever it is used
PatternBroken(rs, cat) == rs.broken = cat

\* re.sub(patterns[cat], replacements[cat], text, flags)
re_sub(cat, text, ignorecase) ==
    LET one(sym) == IF PatternMatches(cat, sym, ignorecase)
                    THEN ReplacementToken(cat) ELSE sym
    IN  MapSeq(one, text)

\* re.search(patterns[cat], text) is not None
re_search(cat, text) == \E k \in 1..Len(text) : PatternMatches(cat, text[k], FALSE)

\* len(re.findall(patterns[cat], text))
re_findall_len(cat, text) ==
    LET hit(sym) == PatternMatches(cat, sym, FALSE) IN CountSeq(hit, text)

-----------------------------------------------------------------------------
(* discovery/privacy.py *)

RuleSets == [enabled : BOOLEAN, broken : {"none", "names", "email"}]

\* enforce_pii_removal raises re.error at the first substitution whose pattern
\* does not compile; with the rule set disabled no pattern is used
enforce_pii_removal_raises(privacy_rules) ==
    privacy_rules.enabled /\ \E cat \in Categories : PatternBroken(privacy_rules, cat)

\* the substitutions applied with names first
enforce_pii_removal_names_first(text, privacy_rules) ==
    IF ~privacy_rules.enabled THEN text
    ELSE LET t1 == re_sub("names", text, FALSE)
             t2 == re_sub("api_token", t1, FALSE)
             t3 == re_sub("iban", t2, FALSE)
             t4 == re_sub("email", t3, TRUE)
             t5 == re_sub("phone", t4, FALSE)
             t6 == re_sub("employee_id", t5, TRUE)
         IN  t6

\* the substitutions applied whether or not the rule set is enabled
enforce_pii_removal_ignores_enabled(text, privacy_rules) ==
    LET t1 == re_sub("api_token", text, FALSE)
        t2 == re_sub("iban", t1, FALSE)
        t3 == re_sub("email", t2, TRUE)
        t4 == re_sub("phone", t3, FALSE)
        t5 == re_sub("employee_id", t4, TRUE)
        t6 == re_sub("names", t5, FALSE)
    IN  t6

enforce_pii_removal(text, privacy_rules) ==
    IF ~privacy_rules.enabled THEN text
    ELSE LET t1 == re_sub("api_token", text, FALSE)
             t2 == re_sub("iban", t1, FALSE)
             t3 == re_sub("email", t2, TRUE)
             t4 == re_sub("phone", t3, FALSE)
             t5 == re_sub("employee_id", t4, TRUE)
             t6 == re_sub("names", t5, FALSE)
         IN  t6

\* InterviewInsights.model_dump_json(): the quotes inside the JSON punctuation
model_dump_json(insights) == <<"{">> \o insights \o <<"}">>

\* InterviewInsights.model_dump(): the record as a plain dict
model_dump(insights) == [quotes |-> insights]

ValidatedCategories == <<"email", "phone", "employee_id">>

IssueText(cat) ==
    CASE cat = "email"       -> "EMAIL detected in output"
      [] cat = "phone"       -> "PHONE NUMBER detected in output"
      [] cat = "employee_id" -> "EMPLOYEE ID detected in output"

\* the search stopped at the first category found
validate_issues_first_only(insights, privacy_rules) ==
    LET all_text == model_dump_json(insights)
        found(cat) == re_search(cat, all_text)
        hits == SelectSeq(ValidatedCategories, found)
    IN  IF hits = <<>> THEN <<>> ELSE <<IssueText(hits[1])>>

\* the list `issues` that validate_no_pii builds
validate_issues(insights, privacy_rules) ==
    LET all_text == model_dump_json(insights)
        found(cat) == re_search(cat, all_text)
    IN  MapSeq(IssueText, SelectSeq(ValidatedCategories, found))

\* the findings are printed as warnings and the record is let through
validate_no_pii_warns_only(insights, privacy_rules) ==
    IF \E k \in 1..Len(ValidatedCategories) :
           PatternBroken(privacy_rules, ValidatedCategories[k])
    THEN "re.error"
    ELSE "ok"

\* validate_no_pii: "ok" (returns True), "ValueError" (output blocked) or
\* "re.error" (one of the three searched patterns does not compile)
validate_no_pii(insights, privacy_rules) ==
    IF \E k \in 1..Len(ValidatedCategories) :
           PatternBroken(privacy_rules, ValidatedCategories[k])
    THEN "re.error"
    ELSE IF validate_issues(insights, privacy_rules) # <<>> THEN "ValueError"
    ELSE "ok"

AuditLabels == <<"Emails", "Phone Numbers", "Employee IDs", "Names", "IBANs", "API Tokens">>

AuditCategory(label) ==
    CASE label = "Emails"        -> "email"
      [] label = "Phone Numbers" -> "phone"
      [] label = "Employee IDs"  -> "employee_id"
      [] label = "Names"         -> "names"
      [] label = "IBANs"         -> "iban"
      [] label = "API Tokens"    -> "api_token"

audit_pii_in_transcript_raises(privacy_rules) ==
    \E cat \in Categories : PatternBroken(privacy_rules, cat)

\* the dict `findings`, label -> count
audit_pii_in_transcript(text, privacy_rules) ==
    [label \in {AuditLabels[k] : k \in 1..Len(AuditLabels)} |->
        re_findall_len(AuditCategory(label), text)]

-----------------------------------------------------------------------------
(* api.py: cache key and cache file *)

Variants == {"sanitized", "sensitive"}

KeySeparator == <<":", ":">>

\* hashlib.sha256(raw).hexdigest()[:16].  The digest is kept as a tagged value
\* of the hashed string: equal strings give equal digests, and SHA-256 is taken
\* to have no collision among the strings of the model.
sha256_hexdigest_16(raw) == [sha256_16 |-> raw]

cache_key_for(text, guidelines_key, variant) ==
    LET raw == variant \o KeySeparator \o guidelines_key \o KeySeparator \o text
    IN  sha256_hexdigest_16(raw)

NoKey == [sha256_16 |-> <<>>]

NoDump == [quotes |-> <<>>]

\* the content of CACHE_DIR / f"{variant}_cache.json"
\*   absent      no such file
\*   unreadable  read_text raises
\*   garbage     json.loads raises, or the JSON value is not an object
\*   object      a JSON object; has_key / has_insights say which fields it has
AbsentFile == [kind |-> "absent", has_key |-> FALSE, key |-> NoKey, variant |-> "none",
               has_insights |-> FALSE, insights |-> NoDump]

DamagedFile(kind) == [AbsentFile EXCEPT !.kind = kind]

\* what run_demo writes (cached_at, a time stamp no code reads, is left out)
CacheEntry(key, variant, dump) ==
    [kind |-> "object", has_key |-> TRUE, key |-> key, variant |-> variant,
     has_insights |-> TRUE, insights |-> dump]

\* an object that carries the key but lost its insights field
EntryWithoutInsights(key, variant) ==
    [CacheEntry(key, variant, NoDump) EXCEPT !.has_insights = FALSE]

\* an object without a key field
EntryWithoutKey(variant, dump) ==
    [CacheEntry(NoKey, variant, dump) EXCEPT !.has_key = FALSE]

KeyFieldPresent(data, key) == data.has_key

\* data.get("key") == key
KeyFieldEquals(data, key) == data.has_key /\ data.key = key

\* the cached branch entered in every mode
cache_lookup_all_modes(mode, file, key) ==
    IF file.kind = "absent" THEN "absent"
    ELSE IF file.kind \in {"unreadable", "garbage"} THEN "readerr"
    ELSE IF KeyFieldEquals(file, key)
         THEN (IF file.has_insights THEN "hit" ELSE "readerr")
         ELSE "miss"

\* the cached branch entered for mode cached only
cache_lookup_cached_only(mode, file, key) ==
    IF mode # "cached" THEN "skipped"
    ELSE IF file.kind = "absent" THEN "absent"
    ELSE IF file.kind \in {"unreadable", "garbage"} THEN "readerr"
    ELSE IF KeyFieldEquals(file, key)
         THEN (IF file.has_insights THEN "hit" ELSE "readerr")
         ELSE "miss"

\* outcome of the cached branch of run_demo for one file content:
\*   "skipped"  the branch is not entered (mode live)
\*   "absent"   cache_file.exists() is false
\*   "hit"      the stored insights are returned
\*   "miss"     the key field differs
\*   "readerr"  an exception was logged ("Failed to read cache; will run live.")
cache_lookup(mode, file, key) ==
    IF mode \notin {"auto", "cached"} THEN "skipped"
    ELSE IF file.kind = "absent" THEN "absent"
    ELSE IF file.kind \in {"unreadable", "garbage"} THEN "readerr"
    ELSE IF KeyFieldEquals(file, key)
         THEN (IF file.has_insights THEN "hit" ELSE "readerr")
         ELSE "miss"

write_text_keep_existing(old, entry) == IF old.kind = "absent" THEN entry ELSE old

\* cache_file.write_text(...): the file after a successful write
write_text(old, entry) == entry

-----------------------------------------------------------------------------
(* Requests *)

Requests == {"r1", "r2"}

Modes == {"auto", "cached", "live"}

\* transcripts a variant file or a direct caller can hold
Transcripts == {<<"w">>, <<"w", "e">>}

\* records the extraction capability can answer with: it is an external model
\* sampled at temperature 0.3, so any record can come back for any input
ExtractionOutputs == {<<"w">>, <<"e">>, <<"n">>}

NoError == [kind |-> <<>>, status |-> 0]

\* pc       idle, waiting (suspended in agent.run), done, failed; and, inside
\*          one step only, live (about to call analyze), validate, write
\* entry    "demo" (POST /demo/run) or "direct" (a caller of analyze)
\* lookup   outcome of the cached branch, "none" before it
\* stages   the pipeline stages run so far, in order
\* findings, sent, insights, result, resp: empty or one-element sequences
\*          (the value once it exists)
\* wrote    "no", "ok" or "failed": the cache write of this request
\* had_entry  history: the cache file held a complete entry under this
\*          request's key when the request arrived (no code reads it)
IdleRequest ==
    [pc |-> "idle", entry |-> "none", mode |-> "none", variant |-> "none",
     text |-> <<>>, key |-> NoKey, audit |-> FALSE, validate |-> FALSE,
     lookup |-> "none", stages |-> <<>>, findings |-> <<>>, sent |-> <<>>,
     insights |-> <<>>, result |-> <<>>, wrote |-> "no", resp |-> <<>>,
     err |-> NoError, had_entry |-> FALSE]

StepsCached == <<"Loading cached insights", "Rendering", "Done">>
StepsLive == <<"Reading transcript", "Extracting insights", "Validating schema",
               "Preparing export", "Done">>

Response(variant, key, cached, dump) ==
    [run_id |-> <<"demo", variant, key>>, variant |-> variant, cached |-> cached,
     steps |-> IF cached THEN StepsCached ELSE StepsLive, insights |-> dump]

\* raise HTTPException(status, ...) out of run_demo / an exception out of analyze
Failed(q, kind, status) == [q EXCEPT !.pc = "failed", !.err = [kind |-> kind, status |-> status]]

\* the failure answered without the exception that caused it
AnalysisFailed_cause_dropped(q, cause) ==
    IF q.entry = "demo" THEN Failed(q, <<"analysis_error">>, 500)
    ELSE Failed(q, <<>>, 0)

\* run_analysis wraps whatever analyze raised into HTTPException(500,
\* "analysis_error: <cause>"); a direct caller sees the exception itself
AnalysisFailed(q, cause) ==
    IF q.entry = "demo" THEN Failed(q, <<"analysis_error", cause>>, 500)
    ELSE Failed(q, <<cause>>, 0)

\* lines 117-127 of run_demo: a hit returns the stored insights at once; a
\* miss, and an exception while reading (logged, "will run live"), fall
\* through to the live branch
after_lookup_uncaught(q, stored) ==
    IF q.lookup = "hit"
    THEN [q EXCEPT !.pc = "done",
                   !.resp = <<Response(q.variant, q.key, TRUE, stored.insights)>>]
    ELSE IF q.lookup = "readerr" THEN Failed(q, <<"cache read failed">>, 500)
    ELSE [q EXCEPT !.pc = "live"]

after_lookup(q, stored) ==
    IF q.lookup = "hit"
    THEN [q EXCEPT !.pc = "done",
                   !.resp = <<Response(q.variant, q.key, TRUE, stored.insights)>>]
    ELSE [q EXCEPT !.pc = "live"]

\* run_analysis calling analyze with validate=False
run_demo_begin_unvalidated(mode, variant, session, file, stored) ==
    LET q0 == [IdleRequest EXCEPT !.entry = "demo", !.mode = mode, !.variant = variant,
                                  !.audit = TRUE, !.validate = FALSE]
    IN  IF ~session THEN Failed(q0, <<"Missing session header">>, 400)
        ELSE IF file = <<>> THEN Failed(q0, <<"Variant file missing">>, 500)
        ELSE LET text == file[1]
                 key == cache_key_for(text, <<>>, <<variant>>)
                 q1 == [q0 EXCEPT !.text = text, !.key = key,
                                  !.lookup = cache_lookup(mode, stored, key),
                                  !.had_entry = (stored.has_key /\ stored.key = key
                                                 /\ stored.has_insights)]
             IN  after_lookup(q1, stored)

\* run_demo up to the call of run_analysis: header check, load_demo_text,
\* cache_key_for, the cached branch
run_demo_begin(mode, variant, session, file, stored) ==
    LET q0 == [IdleRequest EXCEPT !.entry = "demo", !.mode = mode, !.variant = variant,
                                  !.audit = TRUE, !.validate = TRUE]
    IN  IF ~session THEN Failed(q0, <<"Missing session header">>, 400)
        ELSE IF file = <<>> THEN Failed(q0, <<"Variant file missing">>, 500)
        ELSE LET text == file[1]
                 key == cache_key_for(text, <<>>, <<variant>>)
                 q1 == [q0 EXCEPT !.text = text, !.key = key,
                                  !.lookup = cache_lookup(mode, stored, key),
                                  !.had_entry = (stored.has_key /\ stored.key = key
                                                 /\ stored.has_insights)]
             IN  after_lookup(q1, stored)

agent_run_argument_raw(transcript, clean_transcript) == transcript

\* the argument of self.agent.run(...)
agent_run_argument(transcript, clean_transcript) == clean_transcript

\* the audit run after the redaction, on the redacted text
analyze_begin_audit_after_redact(q, privacy_rules) ==
    LET clean_transcript == enforce_pii_removal(q.text, privacy_rules)
        redacted == [q EXCEPT !.stages = Append(@, "redact")]
        audited == IF q.audit
                   THEN [redacted EXCEPT !.stages = Append(@, "audit"),
                                         !.findings = <<audit_pii_in_transcript(clean_transcript,
                                                                                privacy_rules)>>]
                   ELSE redacted
    IN  IF enforce_pii_removal_raises(privacy_rules)
        THEN AnalysisFailed(redacted, "re.error")
        ELSE IF q.audit /\ audit_pii_in_transcript_raises(privacy_rules)
        THEN AnalysisFailed([redacted EXCEPT !.stages = Append(@, "audit")], "re.error")
        ELSE [audited EXCEPT !.pc = "waiting",
                             !.stages = Append(@, "extract"),
                             !.sent = <<agent_run_argument(q.text, clean_transcript)>>]

\* the redaction skipped when the audit counted nothing
analyze_begin_audit_decides(q, privacy_rules) ==
    LET findings == audit_pii_in_transcript(q.text, privacy_rules)
        audited == IF q.audit
                   THEN [q EXCEPT !.stages = Append(@, "audit"), !.findings = <<findings>>]
                   ELSE q
        nothing == \A label \in DOMAIN findings : findings[label] = 0
        clean_transcript == IF q.audit /\ nothing THEN q.text
                            ELSE enforce_pii_removal(q.text, privacy_rules)
    IN  IF q.audit /\ audit_pii_in_transcript_raises(privacy_rules)
        THEN AnalysisFailed([q EXCEPT !.stages = Append(@, "audit")], "re.error")
        ELSE IF enforce_pii_removal_raises(privacy_rules)
        THEN AnalysisFailed([audited EXCEPT !.stages = Append(@, "redact")], "re.error")
        ELSE [audited EXCEPT !.pc = "waiting",
                             !.stages = @ \o <<"redact", "extract">>,
                             !.sent = <<agent_run_argument(q.text, clean_transcript)>>]

\* the audit failure caught and logged, the analysis going on
analyze_begin_audit_swallowed(q, privacy_rules) ==
    LET raised == q.audit /\ audit_pii_in_transcript_raises(privacy_rules)
        audited == IF q.audit
                   THEN [q EXCEPT !.stages = Append(@, "audit"),
                                  !.findings = IF raised THEN <<>>
                                               ELSE <<audit_pii_in_transcript(q.text,
                                                                              privacy_rules)>>]
                   ELSE q
        clean_transcript == enforce_pii_removal(q.text, privacy_rules)
    IN  IF enforce_pii_removal_raises(privacy_rules)
        THEN AnalysisFailed([audited EXCEPT !.stages = Append(@, "redact")], "re.error")
        ELSE [audited EXCEPT !.pc = "waiting",
                             !.stages = @ \o <<"redact", "extract">>,
                             !.sent = <<agent_run_argument(q.text, clean_transcript)>>]

\* analyze up to the suspension in agent.run: audit, redact, send
analyze_begin(q, privacy_rules) ==
    LET audited == IF q.audit
                   THEN [q EXCEPT !.stages = Append(@, "audit"),
                                  !.findings = <<audit_pii_in_transcript(q.text, privacy_rules)>>]
                   ELSE q
        clean_transcript == enforce_pii_removal(q.text, privacy_rules)
    IN  IF q.audit /\ audit_pii_in_transcript_raises(privacy_rules)
        THEN AnalysisFailed([q EXCEPT !.stages = Append(@, "audit")], "re.error")
        ELSE IF enforce_pii_removal_raises(privacy_rules)
        THEN AnalysisFailed([audited EXCEPT !.stages = Append(@, "redact")], "re.error")
        ELSE [audited EXCEPT !.pc = "waiting",
                             !.stages = @ \o <<"redact", "extract">>,
                             !.sent = <<agent_run_argument(q.text, clean_transcript)>>]

\* analyze after agent.run returned result.output: validate, return
analyze_finish(q, privacy_rules) ==
    LET outcome == IF q.validate THEN validate_no_pii(q.insights[1], privacy_rules) ELSE "ok"
        staged == IF q.validate THEN [q EXCEPT !.stages = Append(@, "validate")] ELSE q
    IN  IF outcome # "ok" THEN AnalysisFailed(staged, outcome)
        ELSE [staged EXCEPT !.pc = IF q.entry = "demo" THEN "write" ELSE "done",
                            !.result = q.insights]

run_demo_respond_fatal(q, write_ok) ==
    IF write_ok
    THEN [q EXCEPT !.pc = "done", !.wrote = "ok",
                   !.resp = <<Response(q.variant, q.key, FALSE, model_dump(q.result[1]))>>]
    ELSE Failed([q EXCEPT !.wrote = "failed"], <<"cache write failed">>, 500)

\* run_demo after run_analysis returned: the write is attempted, its failure
\* is logged and ignored, the response is built
run_demo_respond(q, write_ok) ==
    [q EXCEPT !.pc = "done", !.wrote = IF write_ok THEN "ok" ELSE "failed",
              !.resp = <<Response(q.variant, q.key, FALSE, model_dump(q.result[1]))>>]

-----------------------------------------------------------------------------
(* Actions *)

NoProbe == [op |-> "none"]

\* rule sets the API is run with: a working configuration, and two with a
\* pattern that does not compile, redaction enabled and disabled
ApiRuleSets ==
    {[enabled |-> TRUE, broken |-> "none"], [enabled |-> TRUE, broken |-> "names"],
     [enabled |-> FALSE, broken |-> "names"]}

InitialTexts == [v \in Variants |-> IF v = "sanitized" THEN << <<"w">> >> ELSE << <<"w", "e">> >>]

Init ==
    /\ rules \in ApiRuleSets
    /\ texts = InitialTexts
    /\ cache = [v \in Variants |-> AbsentFile]
    /\ req = [r \in Requests |-> IdleRequest]
    /\ lastWriter = [v \in Variants |-> "none"]
    /\ edits = 0
    /\ faults = 0
    /\ probe = NoProbe

\* The handlers are coroutines on one event loop: a step runs from one
\* suspension point to the next, and the only suspension is inside agent.run.

\* POST /demo/run arrives: run_demo answers at once (a hit, an HTTP error) or
\* goes on through run_analysis and analyze until agent.run suspends
RunDemo(r, mode, variant, session) ==
    /\ req[r].pc = "idle"
    /\ LET q == run_demo_begin(mode, variant, session, texts[variant], cache[variant])
       IN  req' = [req EXCEPT ![r] = IF q.pc = "live" THEN analyze_begin(q, rules) ELSE q]
    /\ UNCHANGED <<rules, texts, cache, lastWriter, edits, faults, probe>>

\* a caller other than the API (cli.py, webapp.py) calls analyze
AnalyzeDirect(r, transcript, audit, validate) ==
    /\ req[r].pc = "idle"
    /\ LET q == [IdleRequest EXCEPT !.pc = "live", !.entry = "direct", !.text = transcript,
                                    !.audit = audit, !.validate = validate]
       IN  req' = [req EXCEPT ![r] = analyze_begin(q, rules)]
    /\ UNCHANGED <<rules, texts, cache, lastWriter, edits, faults, probe>>

\* write_text opens the file for writing (truncating it) and then writes:
\*   "ok"       the entry is stored
\*   "refused"  the file could not be opened, it is as it was
\*   "partial"  the write broke off, the file holds no complete JSON value
WriteOutcomes == {"ok", "refused", "partial"}

\* the extraction capability answers: analyze validates and returns; run_demo
\* then writes the cache file (with the given outcome) and responds
ExtractReturn(r, output, outcome) ==
    /\ req[r].pc = "waiting"
    /\ LET q == analyze_finish([req[r] EXCEPT !.pc = "validate", !.insights = <<output>>], rules)
           entry == CacheEntry(q.key, q.variant, model_dump(q.result[1]))
       IN  IF q.pc = "write"
           THEN /\ req' = [req EXCEPT ![r] = run_demo_respond(q, outcome = "ok")]
                /\ CASE outcome = "ok" ->
                          /\ cache' = [cache EXCEPT ![q.variant] = write_text(@, entry)]
                          /\ lastWriter' = [lastWriter EXCEPT ![q.variant] = r]
                     [] outcome = "refused" -> UNCHANGED <<cache, lastWriter>>
                     [] outcome = "partial" ->
                          /\ cache' = [cache EXCEPT ![q.variant] = DamagedFile("garbage")]
                          /\ lastWriter' = [lastWriter EXCEPT ![q.variant] = "none"]
           ELSE /\ outcome = "ok"
                /\ req' = [req EXCEPT ![r] = q]
                /\ UNCHANGED <<cache, lastWriter>>
    /\ UNCHANGED <<rules, texts, edits, faults, probe>>

\* the extraction capability fails
ExtractFail(r) ==
    /\ req[r].pc = "waiting"
    /\ req' = [req EXCEPT ![r] = AnalysisFailed(@, "extraction_error")]
    /\ UNCHANGED <<rules, texts, cache, lastWriter, edits, faults, probe>>

\* the caller has its answer; the slot serves the next request
Reset(r) ==
    /\ req[r].pc \in {"done", "failed"}
    /\ req' = [req EXCEPT ![r] = IdleRequest]
    /\ lastWriter' = [v \in Variants |-> IF lastWriter[v] = r THEN "none" ELSE lastWriter[v]]
    /\ UNCHANGED <<rules, texts, cache, edits, faults, probe>>

\* the transcript file of a variant is replaced or removed on disk
\* (load_demo_text reads it anew on every request)
EditVariantFile(v, file) ==
    /\ edits < MaxEdits
    /\ file # texts[v]
    /\ texts' = [texts EXCEPT ![v] = file]
    /\ edits' = edits + 1
    /\ UNCHANGED <<rules, cache, req, lastWriter, faults, probe>>

\* what a damage can leave: no file, an unreadable or unparsable one, an
\* object that lost a field, or the cache file of the other variant moved here
FaultFiles(v) ==
    {DamagedFile("unreadable"), DamagedFile("garbage"), AbsentFile}
    \cup {EntryWithoutInsights(cache_key_for(t, <<>>, <<v>>), v) : t \in Transcripts}
    \cup {EntryWithoutKey(v, model_dump(<<"w">>))}
    \cup {cache[o] : o \in {o \in Variants \ {v} : cache[o].kind = "object"}}

\* the cache file of a variant is damaged or removed from outside the program
DiskFault(v, file) ==
    /\ faults < MaxFaults
    /\ file # cache[v]
    /\ cache' = [cache EXCEPT ![v] = file]
    /\ lastWriter' = [lastWriter EXCEPT ![v] = "none"]
    /\ faults' = faults + 1
    /\ UNCHANGED <<rules, texts, req, edits, probe>>

-----------------------------------------------------------------------------
(* Pure-function probes *)

KeyChars == {"a", ":"}

KeyTriples ==
    [variant : SeqsUpTo(KeyChars, MaxKeyLen), guidelines_key : SeqsUpTo(KeyChars, MaxKeyLen),
     text : SeqsUpTo(KeyChars, 1)]

\* cache_key_for applied to one argument triple, then to a second one
KeyProbeFirst(a) ==
    /\ probe.op = "none"
    /\ probe' = [op |-> "key1", a |-> a, b |-> a,
                 key_a |-> cache_key_for(a.text, a.guidelines_key, a.variant),
                 key_b |-> NoKey]
    /\ UNCHANGED <<rules, texts, cache, req, lastWriter, edits, faults>>

KeyProbeSecond(b) ==
    /\ probe.op = "key1"
    /\ probe' = [probe EXCEPT !.op = "key2", !.b = b,
                              !.key_b = cache_key_for(b.text, b.guidelines_key, b.variant)]
    /\ UNCHANGED <<rules, texts, cache, req, lastWriter, edits, faults>>

\* substrings of a text, by the patterns they match
PrivacySymbols ==
    {"w", "e", "E", "p", "i", "I", "n", "b", "t"}
    \cup {"tb", "te", "tp", "ti", "tn", "be", "bp", "bi", "bn", "ep", "ei", "en",
          "pi", "pn", "in"}

\* enforce_pii_removal applied to one text under the configured rule set
RedactProbe(text) ==
    /\ probe.op = "none"
    /\ probe' = [op |-> "redact", text |-> text,
                 raised |-> enforce_pii_removal_raises(rules),
                 out |-> IF enforce_pii_removal_raises(rules) THEN <<>>
                         ELSE enforce_pii_removal(text, rules)]
    /\ UNCHANGED <<rules, texts, cache, req, lastWriter, edits, faults>>

\* validate_no_pii applied to one record under the configured rule set
ValidateProbe(insights) ==
    /\ probe.op = "none"
    /\ probe' = [op |-> "validate", insights |-> insights,
                 outcome |-> validate_no_pii(insights, rules),
                 issues |-> IF validate_no_pii(insights, rules) = "re.error" THEN <<>>
                            ELSE validate_issues(insights, rules)]
    /\ UNCHANGED <<rules, texts, cache, req, lastWriter, edits, faults>>

ProbeReset ==
    /\ probe.op # "none"
    /\ probe' = NoProbe
    /\ UNCHANGED <<rules, texts, cache, req, lastWriter, edits, faults>>

-----------------------------------------------------------------------------
(* Specifications *)

\* The API: two requests in flight, variant files edited on disk, cache
\* writes that succeed or are refused
Next ==
    \/ \E r \in Requests, mode \in Modes, v \in Variants, session \in BOOLEAN :
           RunDemo(r, mode, v, session)
    \/ \E r \in Requests, output \in ExtractionOutputs, outcome \in {"ok", "refused"} :
           ExtractReturn(r, output, outcome)
    \/ \E r \in Requests : ExtractFail(r)
    \/ \E r \in Requests : Reset(r)
    \/ \E v \in Variants, t \in Transcripts : EditVariantFile(v, <<t>>)

Spec == Init /\ [][Next]_vars

\* The API serving one request at a time over files that can be damaged: a
\* variant file removed, a cache file damaged from outside or by a write that
\* breaks off
NextFault ==
    \/ \E mode \in Modes, v \in Variants, session \in BOOLEAN : RunDemo("r1", mode, v, session)
    \/ \E output \in ExtractionOutputs, outcome \in WriteOutcomes :
           ExtractReturn("r1", output, outcome)
    \/ ExtractFail("r1")
    \/ Reset("r1")
    \/ \E v \in Variants, file \in {<<>>} \cup {<<t>> : t \in Transcripts} :
           EditVariantFile(v, file)
    \/ \E v \in Variants : \E file \in FaultFiles(v) : DiskFault(v, file)

SpecFault == Init /\ [][NextFault]_vars

\* InterviewAnalyzer.analyze called directly, with every combination of its
\* flags, over every rule set, transcript and extraction answer of the bounds
TextSymbols == {"w", "e", "E", "I", "n"}
RecordSymbols == {"w", "e", "p", "i", "n"}

InitAnalyze ==
    /\ rules \in RuleSets
    /\ texts = InitialTexts
    /\ cache = [v \in Variants |-> AbsentFile]
    /\ req = [r \in Requests |-> IdleRequest]
    /\ lastWriter = [v \in Variants |-> "none"]
    /\ edits = 0
    /\ faults = 0
    /\ probe = NoProbe

NextAnalyze ==
    \/ \E t \in SeqsUpTo(TextSymbols, MaxLen), a \in BOOLEAN, val \in BOOLEAN :
           AnalyzeDirect("r1", t, a, val)
    \/ \E output \in SeqsUpTo(RecordSymbols, MaxQuotes) : ExtractReturn("r1", output, "ok")
    \/ ExtractFail("r1")
    \/ Reset("r1")

SpecAnalyze == InitAnalyze /\ [][NextAnalyze]_vars

\* cache_key_for over pairs of argument triples
InitKey ==
    /\ rules = [enabled |-> TRUE, broken |-> "none"]
    /\ texts = InitialTexts
    /\ cache = [v \in Variants |-> AbsentFile]
    /\ req = [r \in Requests |-> IdleRequest]
    /\ lastWriter = [v \in Variants |-> "none"]
    /\ edits = 0
    /\ faults = 0
    /\ probe = NoProbe

NextKey ==
    \/ \E a \in KeyTriples : KeyProbeFirst(a)
    \/ \E b \in KeyTriples : KeyProbeSecond(b)
    \/ ProbeReset

SpecKey == InitKey /\ [][NextKey]_vars

\* enforce_pii_removal and validate_no_pii over every rule set and every
\* text and record of the bounds
NextPrivacy ==
    \/ \E text \in SeqsUpTo(PrivacySymbols, MaxLen) : RedactProbe(text)
    \/ \E insights \in SeqsUpTo(PrivacySymbols, MaxQuotes) : ValidateProbe(insights)
    \/ ProbeReset

SpecPrivacy == InitAnalyze /\ [][NextPrivacy]_vars

-----------------------------------------------------------------------------
(* Claims *)

\* the serialized record matches the email, phone or employee_id pattern
RecordMatchesPII(insights) ==
    \E cat \in {"email", "phone", "employee_id"} : re_search(cat, model_dump_json(insights))

DumpMatchesPII(dump) == RecordMatchesPII(dump.quotes)

\* C1: fail-closed validation.  When an analysis runs with validate=True and
\* the extracted record, serialized, matches the email, phone or employee_id
\* pattern, validate_no_pii raises (ValueError, wrapped by run_analysis into
\* HTTP 500 analysis_error), analyze returns no record, run_demo builds no
\* response and attempts no cache write; and no response and no cache entry
\* ever carries a record that matches one of the three patterns.
C1_FailClosedValidation ==
    /\ \A r \in Requests :
           LET q == req[r]
           IN  (q.validate /\ q.insights # <<>> /\ RecordMatchesPII(q.insights[1]))
               => /\ q.pc = "failed"
                  /\ q.err = [kind |-> <<"analysis_error", "ValueError">>, status |-> 500]
                  /\ q.result = <<>>
                  /\ q.resp = <<>>
                  /\ q.wrote = "no"
    /\ \A r \in Requests : req[r].resp # <<>> => ~DumpMatchesPII(req[r].resp[1].insights)
    /\ \A v \in Variants : cache[v].has_insights => ~DumpMatchesPII(cache[v].insights)

\* a request whose extraction answered with a record holding an email (or a
\* phone number), blocked by the validator
C1_Witness ==
    \E r \in Requests :
        /\ req[r].entry = "demo" /\ req[r].validate
        /\ req[r].insights # <<>> /\ RecordMatchesPII(req[r].insights[1])
        /\ req[r].pc = "failed"

\* C2: the text handed to the extraction capability is exactly the Redactor's
\* output for the caller's transcript, for every combination of the audit and
\* validate flags; extraction has answered only requests whose input was that.
C2_ExtractionGetsRedactedText ==
    \A r \in Requests :
        LET q == req[r]
        IN  /\ q.sent # <<>> => q.sent[1] = enforce_pii_removal(q.text, rules)
            /\ (q.pc = "waiting" \/ q.insights # <<>>) => q.sent # <<>>

\* an analysis with audit=False and validate=False whose transcript the
\* Redactor changed, and whose changed text reached the extraction
C2_Witness ==
    \E r \in Requests :
        /\ req[r].entry = "direct" /\ ~req[r].audit /\ ~req[r].validate
        /\ req[r].sent # <<>> /\ req[r].sent[1] # req[r].text
        /\ req[r].pc = "done"

\* C3: a request with mode=cached never invokes extraction (a miss ends the
\* request with "not available").
C3_CachedNeverExtracts ==
    \A r \in Requests : req[r].mode = "cached" => req[r].sent = <<>>


\* the entry run_demo writes for a request that has its record
WrittenEntry(q) == CacheEntry(q.key, q.variant, model_dump(q.insights[1]))

\* C4: a request with mode=live never reads the cache.  Also when the cache
\* file holds an entry under its key, it goes on to the extraction; when it
\* completes, its response is the freshly extracted record with cached=false;
\* and its cache write, when the write succeeds, replaces the stored entry by
\* that record.
C4_LiveBypassesCacheRead ==
    /\ [](\A r \in Requests :
              LET q == req[r]
              IN  q.mode = "live"
                  => /\ q.lookup \in {"none", "skipped"}
                     /\ q.resp # <<>>
                        => /\ q.sent # <<>> /\ q.insights # <<>>
                           /\ q.resp[1] = Response(q.variant, q.key, FALSE,
                                                   model_dump(q.insights[1])))
    /\ [][\A r \in Requests :
              /\ (req[r].pc = "idle" /\ req'[r].mode = "live" /\ req'[r].err = NoError)
                 => (req'[r].pc = "waiting" /\ req'[r].sent # <<>> /\ cache' = cache)
              /\ (req[r].mode = "live" /\ req[r].pc = "waiting" /\ req'[r].wrote = "ok")
                 => cache'[req[r].variant] = WrittenEntry(req'[r])]_vars

\* a live request that arrived over a stored entry with its own key and another
\* record, and has replaced that entry by its freshly extracted record
C4_Witness ==
    \E r \in Requests, o \in Requests :
        /\ req[r].mode = "live" /\ req[r].had_entry /\ req[r].pc = "done"
        /\ req[r].wrote = "ok" /\ ~req[r].resp[1].cached
        /\ req[o].pc = "done" /\ req[o].wrote = "ok" /\ req[o].key = req[r].key
        /\ req[o].insights # req[r].insights
        /\ cache[req[r].variant] = WrittenEntry(req[r])

\* the key run_demo computes for a variant, from the variant file as it is
ComputedKey(v) == cache_key_for(texts[v][1], <<>>, <<v>>)

\* a complete cache entry (all fields of the cache file schema) under key k
HoldsEntryFor(file, k) ==
    file.kind = "object" /\ file.has_key /\ file.key = k /\ file.has_insights

\* C5: in mode=auto, when the cache file holds an entry whose key equals the
\* computed key, run_demo returns that entry's insights with cached=true, runs
\* none of audit, redact, extraction and validation, and leaves the cache as it
\* is; the request is finished there.
C5_AutoHitShortCircuits ==
    /\ [][\A r \in Requests, v \in Variants :
              (/\ req[r].pc = "idle" /\ req'[r].pc # "idle"
               /\ req'[r].mode = "auto" /\ req'[r].variant = v /\ req'[r].key # NoKey
               /\ HoldsEntryFor(cache[v], ComputedKey(v)))
              => /\ req'[r].pc = "done"
                 /\ req'[r].resp = <<Response(v, ComputedKey(v), TRUE, cache[v].insights)>>
                 /\ req'[r].stages = <<>> /\ req'[r].findings = <<>>
                 /\ req'[r].sent = <<>> /\ req'[r].insights = <<>>
                 /\ req'[r].wrote = "no"
                 /\ cache' = cache]_vars
    /\ [](\A r \in Requests :
              (req[r].resp # <<>> /\ req[r].resp[1].cached)
              => (req[r].pc = "done" /\ req[r].stages = <<>> /\ req[r].sent = <<>>
                  /\ req[r].wrote = "no"))

\* an auto request answered from the cache
C5_Witness ==
    \E r \in Requests :
        /\ req[r].mode = "auto" /\ req[r].had_entry /\ req[r].pc = "done"
        /\ req[r].resp # <<>> /\ req[r].resp[1].cached
        /\ req[r].resp[1].insights = cache[req[r].variant].insights

\* C6: a stored entry is served as a hit only if its key field equals the key
\* computed for the request.  Whatever the cache file holds, a response with
\* cached=true carries the insights of an entry whose key field is the
\* request's key, and an object whose key field is missing or different
\* is a miss: the request goes on to the live branch.
C6_HitOnlyOnKeyMatch ==
    [][\A r \in Requests, v \in Variants :
           (req[r].pc = "idle" /\ req'[r].pc # "idle" /\ req'[r].variant = v
            /\ req'[r].key # NoKey)
           => LET q == req'[r]
                  file == cache[v]
              IN  /\ q.key = ComputedKey(v)
                  /\ (q.resp # <<>> /\ q.resp[1].cached)
                     => (HoldsEntryFor(file, q.key) /\ q.resp[1].insights = file.insights)
                  /\ (file.kind = "object" /\ (~file.has_key \/ file.key # q.key))
                     => (q.resp = <<>> /\ q.lookup \in {"miss", "skipped"}
                         /\ q.pc \in {"waiting", "failed"} /\ q.stages # <<>>)]_vars

\* a request that found a complete entry under another key and went live
C6_Witness ==
    \E r \in Requests :
        /\ req[r].lookup = "miss" /\ req[r].pc = "waiting"
        /\ cache[req[r].variant].kind = "object" /\ cache[req[r].variant].has_key
        /\ cache[req[r].variant].has_insights
        /\ cache[req[r].variant].key # req[r].key


C8_WriteFailureNotFatal ==
    \A r \in Requests :
        LET q == req[r]
        IN  q.wrote = "failed"
            => /\ q.pc = "done"
               /\ q.err = NoError
               /\ q.result = q.insights
               /\ q.resp = <<Response(q.variant, q.key, FALSE, model_dump(q.insights[1]))>>

\* a request answered although its cache write broke off and left no entry
C8_Witness ==
    \E r \in Requests :
        /\ req[r].wrote = "failed" /\ req[r].pc = "done" /\ req[r].resp # <<>>
        /\ cache[req[r].variant].kind = "garbage"

\* reading the file, parsing it or taking its fields does not give an entry
ReadFails(file, k) ==
    \/ file.kind \in {"unreadable", "garbage"}
    \/ file.kind = "object" /\ (~file.has_key \/ (file.key = k /\ ~file.has_insights))

\* what run_demo does for mode and variant v when there is no cache file
OnAbsentFile(mode, v) ==
    LET q == run_demo_begin(mode, v, TRUE, texts[v], AbsentFile)
    IN  IF q.pc = "live" THEN analyze_begin(q, rules) ELSE q

\* C9: a cache read failure (unreadable file, unparsable content, an entry
\* without the expected fields) is never fatal: in the modes that read the
\* cache the request goes to the live branch and is, from there on, in the
\* state a request over no cache file is in; the cache file is left alone.
C9_ReadFailureFallsThrough ==
    [][\A r \in Requests, v \in Variants :
           (/\ req[r].pc = "idle" /\ req'[r].pc # "idle"
            /\ req'[r].variant = v /\ req'[r].key # NoKey
            /\ req'[r].mode \in {"auto", "cached"}
            /\ ReadFails(cache[v], ComputedKey(v)))
           => /\ [req'[r] EXCEPT !.lookup = "absent"] = OnAbsentFile(req'[r].mode, v)
              /\ req'[r].resp = <<>>
              /\ req'[r].err.kind # <<"cache read failed">>
              /\ cache' = cache]_vars

\* a request that hit a read error and was then answered from the live branch
C9_Witness ==
    \E r \in Requests :
        /\ req[r].lookup = "readerr" /\ req[r].pc = "done"
        /\ req[r].resp # <<>> /\ ~req[r].resp[1].cached

\* two finished requests that both wrote an entry for the same fingerprint
BothWrote(r1, r2) ==
    /\ r1 # r2
    /\ req[r1].pc = "done" /\ req[r1].wrote = "ok"
    /\ req[r2].pc = "done" /\ req[r2].wrote = "ok"
    /\ req[r1].key = req[r2].key /\ req[r1].variant = req[r2].variant

\* no request waits for another: a suspended request can take the answer, or
\* the failure, of its extraction call whatever the other request is doing
NeitherBlocks ==
    \A r \in Requests :
        req[r].pc = "waiting"
        => (ENABLED ExtractReturn(r, <<"w">>, "ok") /\ ENABLED ExtractFail(r))

LastWriterStored(r1, r2) ==
    LET v == req[r1].variant
    IN  /\ lastWriter[v] \in {r1, r2}
        /\ cache[v] = WrittenEntry(req[lastWriter[v]])
        /\ \A o \in Variants \ {v} : ~(cache[o].has_key /\ cache[o].key = req[r1].key)

\* C10 as claimed: after two concurrent requests with the same fingerprint
\* have both written, the cache holds one entry under the key, it is the last
\* writer's, and it is equivalent in content to the other writer's entry.
C10_WritersEquivalent ==
    \A r1 \in Requests, r2 \in Requests :
        BothWrote(r1, r2)
        => /\ LastWriterStored(r1, r2)
           /\ WrittenEntry(req[r1]) = WrittenEntry(req[r2])

\* C10 as amended: two concurrent requests with the same fingerprint do not
\* block each other; when both have written, each has answered with its own
\* record (cached=false), the cache holds one entry under the key, it is
\* exactly the last writer's, and the two writers' entries agree in key and
\* variant (their insights come from separate extraction calls).
C10_LastWriterWins ==
    /\ NeitherBlocks
    /\ \A r1 \in Requests, r2 \in Requests :
           BothWrote(r1, r2)
           => /\ LastWriterStored(r1, r2)
              /\ WrittenEntry(req[r1]).key = WrittenEntry(req[r2]).key
              /\ WrittenEntry(req[r1]).variant = WrittenEntry(req[r2]).variant
              /\ \A r \in {r1, r2} :
                     req[r].resp = <<Response(req[r].variant, req[r].key, FALSE,
                                              model_dump(req[r].insights[1]))>>

\* both requests found no cache file (so both were in flight before either
\* wrote), both got an answer from the extraction, both wrote, and the
\* answers differ
C10_Witness ==
    \E r1 \in Requests, r2 \in Requests :
        /\ BothWrote(r1, r2)
        /\ req[r1].lookup = "absent" /\ req[r2].lookup = "absent"
        /\ req[r1].insights # req[r2].insights
        /\ cache[req[r1].variant] = WrittenEntry(req[r2])

\* the stages analyze runs for a request with these flags, in program order
StageOrder(q) ==
    (IF q.audit THEN <<"audit">> ELSE <<>>) \o <<"redact", "extract">>
    \o (IF q.validate THEN <<"validate">> ELSE <<>>)

IsPrefix(s, t) == Len(s) <= Len(t) /\ SubSeq(t, 1, Len(s)) = s

\* what exists of a request after each stage it has reached
StageEffects(q) ==
    LET last == q.stages[Len(q.stages)]
        ok == q.pc # "failed"
    IN  /\ (q.findings # <<>>) = (q.audit /\ (last # "audit" \/ ok))
        /\ (q.sent # <<>>) = (last \in {"extract", "validate"})
        /\ (q.insights # <<>>) = (last = "validate" \/ (last = "extract" /\ q.pc = "done"))
        /\ (q.result # <<>>) = (q.pc = "done")

\* C11: the stages of one analysis run in the order audit (if requested),
\* redact, extraction, validate (if requested), return.  The audit counts are
\* those of the original transcript; a text has been sent to extraction only
\* after redact; a record is returned only after every stage of the order has
\* run and validation, when requested, passed; a failed request stopped at
\* the stage that failed and never moves on.
C11_StageOrder ==
    /\ [](\A r \in Requests :
              LET q == req[r]
              IN  q.pc # "idle"
                  => /\ q.stages # <<>> /\ IsPrefix(q.stages, StageOrder(q))
                     /\ StageEffects(q)
                     /\ q.findings # <<>>
                        => q.findings[1] = audit_pii_in_transcript(q.text, rules)
                     /\ q.pc = "waiting" => q.stages[Len(q.stages)] = "extract"
                     /\ q.pc = "done"
                        => /\ q.stages = StageOrder(q)
                           /\ q.result = q.insights
                           /\ q.validate => validate_no_pii(q.insights[1], rules) = "ok")
    /\ [][\A r \in Requests :
              req[r].pc = "failed" => req'[r] \in {req[r], IdleRequest}]_vars

\* an analysis with both flags over a transcript holding an email: the audit
\* counted it, the redactor replaced it, and the record came back validated
C11_Witness ==
    \E r \in Requests :
        /\ req[r].pc = "done" /\ req[r].audit /\ req[r].validate
        /\ req[r].stages = <<"audit", "redact", "extract", "validate">>
        /\ req[r].findings[1]["Emails"] = 1
        /\ req[r].sent[1] # req[r].text

\* the order of the re.sub calls in enforce_pii_removal, and their flags
RedactOrder == <<"api_token", "iban", "email", "phone", "employee_id", "names">>

RedactIgnoreCase(cat) == cat \in {"email", "employee_id"}

\* a substring after the six substitutions in order: the token of the first
\* category of the order whose pattern matches it, itself when none does
FirstMatchToken(sym) ==
    LET hit(cat) == PatternMatches(cat, sym, RedactIgnoreCase(cat))
        hits == SelectSeq(RedactOrder, hit)
    IN  IF hits = <<>> THEN sym ELSE ReplacementToken(hits[1])

\* the substring matches one of the five categories substituted before names
MoreSpecificMatch(sym) ==
    \E k \in 1..5 : PatternMatches(RedactOrder[k], sym, RedactIgnoreCase(RedactOrder[k]))

\* C12: with the rule set enabled, enforce_pii_removal applies the six
\* substitutions to the whole text in the order api_token, iban, email, phone,
\* employee_id, names, each on the output of the one before: every substring
\* comes out as the token of the first category in that order that matches it,
\* and a substring that one of the five earlier categories matches is never
\* replaced by the names token, also when the names pattern matches it.
C12_RedactInOrder ==
    (probe.op = "redact" /\ rules.enabled /\ ~probe.raised)
    => /\ Len(probe.out) = Len(probe.text)
       /\ \A k \in 1..Len(probe.text) :
              /\ probe.out[k] = FirstMatchToken(probe.text[k])
              /\ MoreSpecificMatch(probe.text[k]) => probe.out[k] # ReplacementToken("names")

\* a text with an e-mail address that the names pattern matches too, and an
\* IBAN that reads as a phone number: redacted to [EMAIL] and [IBAN]
C12_Witness ==
    /\ probe.op = "redact" /\ rules.enabled /\ ~probe.raised
    /\ probe.text = <<"en", "bp">>
    /\ probe.out = <<"[EMAIL]", "[IBAN]">>

\* C13: with the rule set disabled, enforce_pii_removal returns the text
\* unchanged and uses no pattern (so it cannot fail on one that does not
\* compile), for every text.
C13_DisabledIsIdentity ==
    (probe.op = "redact" /\ ~rules.enabled)
    => (~probe.raised /\ probe.out = probe.text)

\* a text full of PII handed back unchanged by a disabled rule set whose
\* e-mail pattern does not compile
C13_Witness ==
    /\ probe.op = "redact" /\ ~rules.enabled /\ rules.broken = "email"
    /\ probe.text = <<"e", "n">>
    /\ probe.out = <<"e", "n">>

\* the validated categories whose pattern matches a quote of the record
MatchedInRecord(insights) ==
    {cat \in {"email", "phone", "employee_id"} :
        \E k \in 1..Len(insights) : PatternMatches(cat, insights[k], FALSE)}

\* C18: with its three patterns compiling, validate_no_pii raises ValueError
\* if and only if the email, phone or employee_id pattern matches the
\* serialized record; all three are searched before it raises, and the
\* warnings name exactly the categories that match, one each; a record that
\* only the names, iban or api_token patterns match passes.
C18_ValidatorChecksThree ==
    (probe.op = "validate" /\ probe.outcome # "re.error")
    => LET matched == MatchedInRecord(probe.insights)
           reported == {probe.issues[k] : k \in 1..Len(probe.issues)}
       IN  /\ (probe.outcome = "ValueError") = (matched # {})
           /\ (probe.outcome = "ok") = (matched = {})
           /\ reported = {IssueText(cat) : cat \in matched}
           /\ Len(probe.issues) = Cardinality(matched)
           /\ (\A k \in 1..Len(probe.insights) :
                   probe.insights[k] \in {"n", "b", "t", "tb", "tn", "bn"})
              => probe.outcome = "ok"

\* a record whose quotes match all three validated patterns, blocked with the
\* three warnings
C18_Witness ==
    /\ probe.op = "validate" /\ probe.outcome = "ValueError"
    /\ probe.insights = <<"ep", "i">>
    /\ probe.issues = <<"EMAIL detected in output", "PHONE NUMBER detected in output",
                        "EMPLOYEE ID detected in output">>

\* a record that the names, iban and api_token patterns match, let through
C18_PassWitness ==
    /\ probe.op = "validate" /\ probe.outcome = "ok"
    /\ probe.insights = <<"tn", "b">>

\* the run of analyze with audit=False over the transcript, the validate flag
\* and the extraction outcome of request q
WithoutAudit(q) ==
    LET q0 == [IdleRequest EXCEPT !.pc = "live", !.entry = q.entry, !.text = q.text,
                                  !.audit = FALSE, !.validate = q.validate]
        begun == analyze_begin(q0, rules)
    IN  IF begun.pc # "waiting" \/ q.pc = "waiting" THEN begun
        ELSE IF q.insights = <<>> THEN AnalysisFailed(begun, "extraction_error")
        ELSE analyze_finish([begun EXCEPT !.pc = "validate", !.insights = q.insights], rules)

\* C14: the audit is advisory.  Under a rule set with which the audit does
\* not fail, an analysis with audit=True is, at each of its steps and for the
\* same answer of the extraction, the analysis with audit=False plus the
\* audit's counts: the same text is sent to extraction, the validation ends
\* the same way, the same record is returned or the same error raised.
C14_AuditAdvisory ==
    \A r \in Requests :
        LET q == req[r]
        IN  (q.pc # "idle" /\ q.audit /\ ~audit_pii_in_transcript_raises(rules))
            => /\ q.findings # <<>> /\ q.stages[1] = "audit"
               /\ [q EXCEPT !.audit = FALSE, !.findings = <<>>, !.stages = Tail(@)]
                  = WithoutAudit(q)

\* an audited analysis of a transcript in which the audit's patterns count
\* nothing although the redactor (matching case-insensitively) finds an
\* address to replace; the record came back and passed validation
C14_Witness ==
    \E r \in Requests :
        /\ req[r].audit /\ req[r].validate /\ req[r].pc = "done"
        /\ \A label \in DOMAIN req[r].findings[1] : req[r].findings[1][label] = 0
        /\ req[r].sent[1] # req[r].text
        /\ req[r].result # <<>>

\* an audited analysis blocked by the validator, as the unaudited one is
C14_BlockedWitness ==
    \E r \in Requests :
        /\ req[r].audit /\ req[r].validate /\ req[r].pc = "failed"
        /\ req[r].err.kind = <<"ValueError">>
        /\ WithoutAudit(req[r]).err.kind = <<"ValueError">>

\* the audit of request q was requested, was reached and raised
AuditFailed(q) ==
    q.audit /\ q.stages # <<>> /\ audit_pii_in_transcript_raises(rules)

\* C15: an audit failure is fatal and comes before any data leaves the
\* process.  When the audit is requested and raises, the analysis has failed
\* at the audit stage, the caller has the error with its cause (run_analysis
\* answers HTTP 500 analysis_error), nothing was sent to the extraction, no
\* record was returned, no response built and no cache write attempted; the
\* step leaves the cache as it is.
C15_AuditFailureFatal ==
    /\ [](\A r \in Requests :
              LET q == req[r]
              IN  AuditFailed(q)
                  => /\ q.pc = "failed" /\ q.stages = <<"audit">>
                     /\ q.err = [kind |-> <<"analysis_error", "re.error">>, status |-> 500]
                     /\ q.sent = <<>> /\ q.insights = <<>> /\ q.result = <<>>
                     /\ q.resp = <<>> /\ q.wrote = "no")
    /\ [][\A r \in Requests :
              (req[r].pc = "idle" /\ AuditFailed(req'[r])) => cache' = cache]_vars
    /\ [](audit_pii_in_transcript_raises(rules)
              => \A v \in Variants : cache[v] = AbsentFile)

\* a request whose audit raised under a rule set with redaction disabled
\* (the redactor itself would not have failed), ended with HTTP 500
C15_Witness ==
    \E r \in Requests :
        /\ AuditFailed(req[r]) /\ ~enforce_pii_removal_raises(rules)
        /\ req[r].pc = "failed" /\ req[r].err.status = 500
        /\ req[r].text = <<"w", "e">>

\* the extraction call of request q failed
ExtractionFailed(q) ==
    q.pc = "failed" /\ q.sent # <<>> /\ q.insights = <<>>

\* C16: an extraction failure fails the request: the caller gets HTTP 500
\* analysis_error with the extraction's exception as its cause, no record
\* is returned, no response built and no cache write attempted; the
\* extraction was called once and the request does nothing more (no retry);
\* neither the step that started the request nor the step in which the
\* extraction failed changes the cache.
C16_ExtractionFailureSurfaced ==
    /\ [](\A r \in Requests :
              LET q == req[r]
              IN  ExtractionFailed(q)
                  => /\ q.err = [kind |-> <<"analysis_error", "extraction_error">>,
                                 status |-> 500]
                     /\ q.stages = <<"audit", "redact", "extract">>
                     /\ q.result = <<>> /\ q.resp = <<>> /\ q.wrote = "no")
    /\ [][\A r \in Requests :
              /\ (req[r].pc = "idle" /\ req'[r].pc = "waiting") => cache' = cache
              /\ (req[r].pc = "waiting" /\ ExtractionFailed(req'[r])) => cache' = cache
              /\ ExtractionFailed(req[r]) => req'[r] \in {req[r], IdleRequest}]_vars

\* a request whose extraction failed while the cache file of its variant held
\* another request's entry under the same key: the entry is still there
C16_Witness ==
    \E r \in Requests, o \in Requests :
        /\ ExtractionFailed(req[r]) /\ req[r].mode = "live"
        /\ req[o].pc = "done" /\ req[o].wrote = "ok" /\ req[o].key = req[r].key
        /\ cache[req[r].variant] = WrittenEntry(req[o])

\* in this step request r completes a successful cache write under key k
WritesUnder(r, k) ==
    req[r].pc = "waiting" /\ req'[r].wrote = "ok" /\ req'[r].key = k

\* C17: after a successful put of (key, variant, record) a get for the key
\* is a hit with that key and exactly that record, and stays one until the
\* next successful write under the same key: a step without such a write, in
\* particular a write under a different key, leaves the stored entry as it is.
C17_RoundTripUntilSameKeyWrite ==
    [][/\ \A r \in Requests :
              (req[r].pc = "waiting" /\ req'[r].wrote = "ok")
              => LET q == req'[r]
                     file == cache'[q.variant]
                 IN  /\ cache_lookup("auto", file, q.key) = "hit"
                     /\ file.key = q.key
                     /\ file.insights = model_dump(q.result[1])
       /\ \A v \in Variants :
              (cache[v].kind = "object" /\ ~\E r \in Requests : WritesUnder(r, cache[v].key))
              => cache'[v] = cache[v]]_vars

\* the record of a dump passes the validator
DumpPassesValidator(dump) == validate_no_pii(dump.quotes, rules) = "ok"

\* request r has, in this step, come back from an analysis that ran with
\* validate=True and passed, and written its record to the file of variant v
WrittenAfterValidation(r, v) ==
    /\ req[r].pc = "waiting" /\ req'[r].pc = "done" /\ req'[r].wrote = "ok"
    /\ req'[r].variant = v /\ req'[r].validate
    /\ req'[r].stages = <<"audit", "redact", "extract", "validate">>
    /\ validate_no_pii(req'[r].insights[1], rules) = "ok"
    /\ cache'[v] = WrittenEntry(req'[r])

\* C19: starting from an empty cache, whatever requests have run in whatever
\* modes and however they ended, every cache file is absent or a complete
\* entry whose record passes the validator; a cache file changes only in the
\* step in which a request writes the record of an analysis that ran with
\* validate=True and passed; every response with cached=true carries a
\* record that passes the validator.
C19_CacheHoldsValidatedOnly ==
    /\ [](\A v \in Variants :
              cache[v] # AbsentFile
              => /\ cache[v].kind = "object" /\ cache[v].has_key /\ cache[v].has_insights
                 /\ DumpPassesValidator(cache[v].insights))
    /\ [](\A r \in Requests :
              (req[r].resp # <<>> /\ req[r].resp[1].cached)
              => DumpPassesValidator(req[r].resp[1].insights))
    /\ [][\A v \in Variants :
              cache'[v] # cache[v] => \E r \in Requests : WrittenAfterValidation(r, v)]_vars

\* a request answered from the cache while another request for the same
\* variant, going live, had its record blocked by the validator
C19_Witness ==
    \E r \in Requests, o \in Requests :
        /\ req[r].pc = "done" /\ req[r].resp[1].cached
        /\ req[r].resp[1].insights = cache[req[r].variant].insights
        /\ req[o].variant = req[r].variant /\ req[o].mode = "live"
        /\ req[o].err.kind = <<"analysis_error", "ValueError">>

====
